---- MODULE Spec2Model ----
(***************************************************************************)
(* The snapshot subsystem of e2d: the three Snapshotter backends (local    *)
(* directory, S3, Azure Blob), their Save and Load, and the pointer record *)
(* etcd.snapshot.LATEST.                                                    *)
(*                                                                         *)
(* A path or an object key is a sequence of strings: the directory or key  *)
(* prefix, then the two parts of the name "etcd.snapshot.<suffix>".        *)
(* An image is a sequence of bytes.                                        *)
(***************************************************************************)
EXTENDS Integers, Sequences, FiniteSets, TLC

\* ------------------------------------------------------------------ bounds
\* The wall clock takes the values 0..MaxTime (Unix seconds).
MaxTime == 1
\* At most MaxCalls calls of Save or Load are issued.
MaxCalls == 3

\* ------------------------------------------------------------- constants
snapshotFilename == "etcd.snapshot"
latestSuffix == "LATEST"

\* The byte streams handed to Save.
Images == {<<"a">>, <<"b", "a">>}

\* The callers: in Spec only caller 1 issues calls, one at a time. In
\* SpecConcurrent callers 1 and 2 save, each through a backend instance of
\* its own on the same store, and caller 3 loads.
Clients == {1, 2, 3}

\* ---------------------------------------------------------------- helpers
Decimal == <<"0", "1", "2", "3", "4", "5", "6", "7", "8", "9">>

\* strconv.FormatInt(n, 10) and fmt's %d, for one-digit n.
FormatInt(n) == Decimal[n + 1]

\* time.Format("2006-01-02T15:04:05-0700") of Unix second n, in UTC.
FormatStamp(n) == <<"1970-01-01T00:00:0", FormatInt(n), "+0000">>

\* filepath.Join(dir, name), the name given as its parts.
Join(dir, name) == dir \o name

IsAbs(p) == Len(p) > 0 /\ p[1] = "/"

\* The directory of a path whose last two parts are the file name.
Dir(p) == SubSeq(p, 1, Len(p) - 2)

\* The path a symlink at linkPath with target string target resolves to:
\* a relative target is taken relative to the symlink's own directory.
Resolve(linkPath, target) ==
  IF IsAbs(target) THEN target ELSE Dir(linkPath) \o target

\* A write of byte b at offset off (0-based) of a file opened without
\* O_TRUNC: bytes beyond the written ones stay.
WriteAt(old, off, b) ==
  IF off < Len(old) THEN [old EXCEPT ![off + 1] = b] ELSE Append(old, b)

Has(stack, d) == \E i \in 1..Len(stack) : stack[i] = d

\* strings.HasPrefix, on a name given by its parts or a text by its characters.
HasPrefix(p, pre) == Len(pre) <= Len(p) /\ SubSeq(p, 1, Len(pre)) = pre

\* strings.ToLower (and the case folding of json.Unmarshal), on the letters
\* the URLs and the member names are written with.
LowerOf ==
  [A |-> "a", B |-> "b", C |-> "c", E |-> "e", F |-> "f", H |-> "h", I |-> "i",
   L |-> "l", P |-> "p", R |-> "r", S |-> "s", T |-> "t", U |-> "u", Z |-> "z"]

ToLower(s) == [i \in 1..Len(s) |-> IF s[i] \in DOMAIN LowerOf THEN LowerOf[s[i]] ELSE s[i]]

\* ------------------------------------------------------- pointer record
\* LatestFile{Path, Timestamp}. A field is a text: a sequence of characters
\* (a part of a name that holds none of the characters JSON escapes stands
\* for its characters).
LatestFile(path, stamp) == [Path |-> path, Timestamp |-> stamp]

\* The names of the fields, as json.Marshal writes them.
Names ==
  [Path |-> <<"P", "a", "t", "h">>,
   Timestamp |-> <<"T", "i", "m", "e", "s", "t", "a", "m", "p">>]

\* What json.Marshal writes for the characters it does not copy: the quote,
\* the backslash, the newline, and (HTML escaping is on) '<' and '&'.
EscapeOf ==
  ("\"" :> <<"\\", "\"">>) @@ ("\\" :> <<"\\", "\\">>) @@ ("\n" :> <<"\\", "n">>)
  @@ ("<" :> <<"\\", "u", "0", "0", "3", "c">>)
  @@ ("&" :> <<"\\", "u", "0", "0", "2", "6">>)

RECURSIVE Escape(_)
Escape(s) ==
  IF s = <<>> THEN <<>>
  ELSE (IF s[1] \in DOMAIN EscapeOf THEN EscapeOf[s[1]] ELSE <<s[1]>>) \o Escape(Tail(s))

\* A Quote that copies every character as it is.
QuoteRaw(s) == <<"\"">> \o s \o <<"\"">>

\* json.Marshal of a string: the JSON string literal.
Quote(s) == <<"\"">> \o Escape(s) \o <<"\"">>

\* The escapes json.Unmarshal decodes: \", \\, \/, \n, \t and \uXXXX (here
\* for the code points of '<', '>' and '&').
Simple ==
  ("\"" :> "\"") @@ ("\\" :> "\\") @@ ("/" :> "/") @@ ("n" :> "\n") @@ ("t" :> "\t")
Hex ==
  (<<"0", "0", "3", "c">> :> "<") @@ (<<"0", "0", "3", "e">> :> ">")
  @@ (<<"0", "0", "2", "6">> :> "&")

\* The text between the quotes of a string literal, decoded; not ok when a
\* quote or a control character stands there bare, or an escape is cut short
\* or unknown.
RECURSIVE Unescape(_)
Unescape(b) ==
  LET bad == [ok |-> FALSE, s |-> <<>>]
      then(ch, rest) ==
        LET r == Unescape(rest) IN IF r.ok THEN [ok |-> TRUE, s |-> <<ch>> \o r.s] ELSE bad
  IN IF b = <<>> THEN [ok |-> TRUE, s |-> <<>>]
     ELSE IF b[1] \in {"\"", "\n", "\t"} THEN bad
     ELSE IF b[1] # "\\" THEN then(b[1], Tail(b))
     ELSE IF Len(b) >= 2 /\ b[2] \in DOMAIN Simple
     THEN then(Simple[b[2]], SubSeq(b, 3, Len(b)))
     ELSE IF Len(b) >= 6 /\ b[2] = "u" /\ SubSeq(b, 3, 6) \in DOMAIN Hex
     THEN then(Hex[SubSeq(b, 3, 6)], SubSeq(b, 7, Len(b)))
     ELSE bad

\* json.Unmarshal of a value into a string field: a string literal gives its
\* text, any other value (a number, an object) a type error.
Unquote(v) ==
  IF Len(v) >= 2 /\ v[1] = "\"" /\ v[Len(v)] = "\""
  THEN Unescape(SubSeq(v, 2, Len(v) - 1))
  ELSE [ok |-> FALSE, s |-> <<>>]

\* The JSON value null: json.Unmarshal leaves the field as it is.
Null == <<"n", "u", "l", "l">>

\* json.Marshal of a LatestFile: an object of two members, in field order,
\* each a name and a value.
generate(l) ==
  <<[k |-> Names.Path, v |-> Quote(l.Path)],
    [k |-> Names.Timestamp, v |-> Quote(l.Timestamp)]>>

\* The members of doc json.Unmarshal stores into field f: those whose name
\* is f, the case of the letters aside, and whose value is not null.
Assigned(doc, f) ==
  {i \in 1..Len(doc) : ToLower(doc[i].k) = ToLower(Names[f]) /\ doc[i].v # Null}

\* The value json.Unmarshal leaves in field f: that of the last member
\* stored into it, the zero value when there is none. Other members are
\* ignored.
Field(doc, f) ==
  LET idx == Assigned(doc, f)
  IN IF idx = {} THEN <<>>
     ELSE Unquote(doc[CHOOSE i \in idx : \A j \in idx : j <= i].v).s

\* LatestFile.read: json.Unmarshal into a LatestFile; an error when the
\* input is not JSON or a member of a field has a value that is no string.
read(blob) ==
  IF blob.json /\ \A f \in DOMAIN Names : \A i \in Assigned(blob.doc, f) : Unquote(blob.doc[i].v).ok
  THEN [err |-> "", l |-> LatestFile(Field(blob.doc, "Path"), Field(blob.doc, "Timestamp"))]
  ELSE [err |-> "unmarshal", l |-> LatestFile(<<>>, <<>>)]

\* The entry named etcd.snapshot.LATEST: absent, a symlink (local), or an
\* object (remote) holding a JSON document or bytes that are not JSON.
NoEntry == [t |-> "none", target |-> <<>>, json |-> FALSE, doc |-> <<>>]
Symlink(target) == [t |-> "symlink", target |-> target, json |-> FALSE, doc |-> <<>>]
Blob(doc) == [t |-> "blob", target |-> <<>>, json |-> TRUE, doc |-> doc]
Garbage == [t |-> "blob", target |-> <<>>, json |-> FALSE, doc |-> <<>>]

\* ------------------------------------------------------------------ state
VARIABLES
  cfg,        \* the backend instance: kind, path (local), key (S3), retentionTime
  now,        \* the wall clock, Unix seconds
  files,      \* the regular files of the directory / the image objects: path -> bytes
  latest,     \* the entry etcd.snapshot.LATEST
  tmp,        \* the temporary files on the local disk: id -> bytes
  tmpSeq,     \* temporary files created so far
  ncalls,     \* calls issued so far
  call,       \* per caller: the call in flight or the last one returned
  completed,  \* history: the paths/keys an image write to which has finished
  lastOK,     \* history: the bytes of the last Save that returned nil
  intact,     \* history: nothing external touched the store since that Save
  orphan,     \* history: the last Save wrote its image and failed at the pointer
  url,        \* start-up: the backup URL given to ParseSnapshotBackupURL
  parsed,     \* start-up: what ParseSnapshotBackupURL returned
  made,       \* start-up: what the constructor of the backend returned
  ptr         \* a pointer record on its way through generate and read

vars == <<cfg, now, files, latest, tmp, tmpSeq, ncalls, call, completed, lastOK, intact, orphan,
          url, parsed, made, ptr>>

\* What the start-up leaves and no call of Save or Load changes.
boot == <<cfg, url, parsed, made, ptr>>

NoStream == [src |-> "none", path |-> <<>>, tmp |-> 0, data |-> <<>>]

NoCall ==
  [op |-> "none", pc |-> "idle", data |-> <<>>, ts |-> 0, off |-> 0,
   defers |-> <<>>, err |-> "", cerr |-> "", closed |-> FALSE, ctxDone |-> FALSE,
   tmp |-> 0, lpath |-> <<>>, stream |-> NoStream, got |-> <<>>, rerr |-> "",
   imgDone |-> FALSE, ptrBegun |-> FALSE, ptrFailed |-> FALSE, fault |-> FALSE,
   stale |-> FALSE,
   latest0 |-> NoEntry, files0 |-> <<>>, lastOK0 |-> [some |-> FALSE, data |-> <<>>]]

\* What a Load of a store with pointer entry l and images fs finds: no
\* pointer, the image the pointer names, or something else.
LoadView(l, fs) ==
  LET p == IF l.t = "symlink"
           THEN Resolve(Join(cfg.path, <<snapshotFilename, latestSuffix>>), l.target)
           ELSE Field(l.doc, "Path")
  IN IF l.t = "none" THEN [what |-> "missing", data |-> <<>>]
     ELSE IF (l.t = "symlink" \/ l.json) /\ p \in DOMAIN fs
     THEN [what |-> "image", data |-> fs[p]]
     ELSE [what |-> "other", data |-> <<>>]

NoOrphan == [on |-> FALSE, latest0 |-> NoEntry, prev |-> LoadView(NoEntry, <<>>)]

AbsDir == <<"/", "snap">>
RelDir == <<"abc">>

Configs ==
  {[kind |-> "file", path |-> d, key |-> <<>>, retentionTime |-> r] :
      d \in {AbsDir, RelDir}, r \in {0, 1}}
  \cup {[kind |-> "s3", path |-> <<>>, key |-> <<"backupdir/">>, retentionTime |-> r] :
          r \in {0, 1}}
  \cup {[kind |-> "azure", path |-> <<>>, key |-> <<>>, retentionTime |-> 0]}

\* The URL type: its zero Bucket and Path are empty strings. NilURL stands
\* for the nil *URL.
URL(type, bucket, path) == [Type |-> type, Bucket |-> bucket, Path |-> path]
NilURL == URL("nil", <<>>, <<>>)

\* No URL was given, nothing was parsed; the backend was constructed.
NoInput == [scheme |-> <<>>, sep |-> <<>>, host |-> <<>>, path |-> <<>>]
NotParsed == [done |-> FALSE, err |-> "", u |-> NilURL]
\* made: the constructor that ran, the answer to its HEAD request on the
\* bucket, the error it returned and whether it returned an instance.
HeadOK == [err |-> FALSE, requestFailure |-> FALSE, status |-> 200]
NotMade == [done |-> FALSE, by |-> "", head |-> HeadOK, err |-> "", s |-> FALSE]
Constructed == [done |-> TRUE, by |-> "", head |-> HeadOK, err |-> "", s |-> TRUE]

\* ptr: the record l, the document generate made of it (with the members
\* others added), what read made of the document. No record is on its way.
NoRecord ==
  [stage |-> "none", l |-> LatestFile(<<>>, <<>>), doc |-> <<>>,
   out |-> [err |-> "", l |-> LatestFile(<<>>, <<>>)]]

\* An empty store, no call made.
InitStore ==
  /\ now = 0
  /\ files = <<>>
  /\ latest = NoEntry
  /\ tmp = <<>>
  /\ tmpSeq = 0
  /\ ncalls = 0
  /\ call = [c \in Clients |-> NoCall]
  /\ completed = {}
  /\ lastOK = [some |-> FALSE, data |-> <<>>]
  /\ intact = TRUE
  /\ orphan = NoOrphan

Init ==
  /\ cfg \in Configs
  /\ url = NoInput
  /\ parsed = NotParsed
  /\ made = Constructed
  /\ ptr = NoRecord
  /\ InitStore

\* The caller has no call in flight.
Idle(c) == call[c].pc \in {"idle", "done", "read"}

\* A call begins: a fresh record, with the store as the call found it.
Fresh(op) ==
  [NoCall EXCEPT !.op = op, !.latest0 = latest, !.files0 = files,
                 !.lastOK0 = IF intact THEN lastOK ELSE NoCall.lastOK0]

\* A return that closes the input stream on the success path only.
RetCloseOnSuccess(rec, err) ==
  [rec EXCEPT !.pc = "done", !.err = err,
              !.closed = @ \/ (err = "" /\ Has(rec.defers, "r.Close")),
              !.ctxDone = @ \/ Has(rec.defers, "cancel")]

\* A function return with error err ("" is nil): the deferred calls run.
\* r.Close closes the input stream, cancel releases the deadline context.
Ret(rec, err) ==
  [rec EXCEPT !.pc = "done", !.err = err,
              !.closed = @ \/ Has(rec.defers, "r.Close"),
              !.ctxDone = @ \/ Has(rec.defers, "cancel")]

\* The temporary files after the deferred calls of rec have run.
TmpAfter(rec) ==
  IF Has(rec.defers, "os.Remove") THEN [i \in DOMAIN tmp \ {rec.tmp} |-> tmp[i]] ELSE tmp

Set(c, rec) == call' = [call EXCEPT ![c] = rec]

\* The history a returning Save leaves: its bytes when it returned nil (a
\* Save that failed may have touched the store); when
\* it wrote its image and failed at the pointer, the pointer entry it found
\* and what a Load found before it.
Returned(rec) ==
  /\ IF rec.err = ""
     THEN /\ lastOK' = [some |-> TRUE, data |-> rec.data]
          /\ intact' = TRUE
     ELSE /\ intact' = FALSE
          /\ UNCHANGED lastOK
  /\ orphan' = IF rec.err # "" /\ rec.imgDone /\ rec.ptrBegun /\ cfg.kind # "file"
               THEN [on |-> TRUE, latest0 |-> rec.latest0,
                     prev |-> LoadView(rec.latest0, rec.files0)]
               ELSE NoOrphan

\* ------------------------------------------------- local directory backend
snapshotFile(ts) == Join(cfg.path, <<snapshotFilename, FormatInt(ts)>>)
latestSymlink == Join(cfg.path, <<snapshotFilename, latestSuffix>>)

\* FileSnapshotter.Save: defer r.Close(), the file names.
FileSave_Begin(c, r) ==
  /\ cfg.kind = "file" /\ Idle(c) /\ ncalls < MaxCalls
  /\ ncalls' = ncalls + 1
  /\ Set(c, [Fresh("save") EXCEPT !.pc = "open", !.data = r, !.ts = now,
                                   !.defers = <<"r.Close">>])
  /\ UNCHANGED <<boot, now, files, latest, tmp, tmpSeq, completed, lastOK, intact, orphan>>

\* os.OpenFile(snapshotFile, O_RDWR|O_CREATE, 0600); defer f.Close().
FileSave_OpenFile(c) ==
  LET rec == call[c]
      p == snapshotFile(rec.ts)
  IN /\ rec.op = "save" /\ rec.pc = "open" /\ cfg.kind = "file"
     /\ \E ok \in BOOLEAN :
          IF ok
          THEN /\ files' = IF p \in DOMAIN files THEN files ELSE files @@ (p :> <<>>)
               /\ Set(c, [rec EXCEPT !.pc = "lstat", !.defers = Append(@, "f.Close")])
               /\ UNCHANGED <<lastOK, intact, orphan>>
          ELSE /\ Set(c, Ret([rec EXCEPT !.fault = TRUE], "open"))
               /\ Returned(Ret(rec, "open"))
               /\ UNCHANGED files
     /\ UNCHANGED <<boot, now, latest, tmp, tmpSeq, ncalls, completed>>

\* os.Lstat(latestSymlink), and os.Remove of it when it exists.
FileSave_RemoveLatest(c) ==
  LET rec == [call[c] EXCEPT !.ptrBegun = TRUE]
  IN /\ rec.op = "save" /\ rec.pc = "lstat" /\ cfg.kind = "file"
     /\ IF latest.t # "none"
        THEN \E ok \in BOOLEAN :
               IF ok
               THEN /\ latest' = NoEntry
                    /\ Set(c, [rec EXCEPT !.pc = "symlink"])
                    /\ UNCHANGED <<lastOK, intact, orphan>>
               ELSE /\ Set(c, Ret([rec EXCEPT !.fault = TRUE], "can't remove latest symlink"))
                    /\ Returned(Ret(rec, "can't remove latest symlink"))
                    /\ UNCHANGED latest
        ELSE /\ Set(c, [rec EXCEPT !.pc = "symlink"])
             /\ UNCHANGED <<latest, lastOK, intact, orphan>>
     /\ UNCHANGED <<boot, now, files, tmp, tmpSeq, ncalls, completed>>

\* os.Symlink(snapshotFile, latestSymlink): EEXIST when the entry exists.
SymlinkFileSnapshot(ts) == Symlink(snapshotFile(ts))

FileSave_Symlink(c) ==
  LET rec == [call[c] EXCEPT !.ptrBegun = TRUE]
  IN /\ rec.op = "save" /\ rec.pc = "symlink" /\ cfg.kind = "file"
     /\ \E ok \in BOOLEAN :
          IF ok /\ latest.t = "none"
          THEN /\ latest' = SymlinkFileSnapshot(rec.ts)
               /\ Set(c, [rec EXCEPT !.pc = "copy"])
               /\ UNCHANGED <<lastOK, intact, orphan>>
          ELSE /\ Set(c, Ret([rec EXCEPT !.fault = TRUE], "can't create latest symlink"))
               /\ Returned(Ret(rec, "can't create latest symlink"))
               /\ UNCHANGED latest
     /\ UNCHANGED <<boot, now, files, tmp, tmpSeq, ncalls, completed>>

\* io.Copy(f, r), a byte at a time from the file's offset 0; its error is
\* kept and the function goes on to the pruning.
FileSave_Copy(c) ==
  LET rec == call[c]
      p == snapshotFile(rec.ts)
  IN /\ rec.op = "save" /\ rec.pc = "copy" /\ cfg.kind = "file"
     /\ IF rec.off = Len(rec.data)
        THEN /\ Set(c, [rec EXCEPT !.pc = "prune", !.cerr = "", !.imgDone = TRUE])
             /\ completed' = completed \cup {p}
             /\ UNCHANGED files
        ELSE \E ok \in BOOLEAN :
               IF ok
               THEN /\ files' = [files EXCEPT ![p] = WriteAt(@, rec.off, rec.data[rec.off + 1])]
                    /\ Set(c, [rec EXCEPT !.off = @ + 1])
                    /\ UNCHANGED completed
               ELSE /\ Set(c, [rec EXCEPT !.pc = "prune", !.cerr = "copy", !.fault = TRUE])
                    /\ UNCHANGED <<files, completed>>
     /\ UNCHANGED <<boot, now, latest, tmp, tmpSeq, ncalls, lastOK, intact, orphan>>

\* The pruning block: with retentionTime > 0 the directory is listed (a
\* failure returns); the loop only logs, the os.Remove is commented out.
\* Then return err, the error of io.Copy.
FileSave_Prune(c) ==
  LET rec == call[c]
  IN /\ rec.op = "save" /\ rec.pc = "prune" /\ cfg.kind = "file"
     /\ \E ok \in BOOLEAN :
          LET e == IF cfg.retentionTime > 0 /\ ~ok
                   THEN "unable to list snapshot directory during pruning"
                   ELSE rec.cerr
              out == Ret([rec EXCEPT !.fault = @ \/ (cfg.retentionTime > 0 /\ ~ok)], e)
          IN /\ Set(c, out)
             /\ Returned(out)
     /\ UNCHANGED <<boot, now, files, latest, tmp, tmpSeq, ncalls, completed>>

\* FileSnapshotter.Load: os.Open(latestSymlink), following the symlink.
FileLoad(c) ==
  LET p == Resolve(latestSymlink, latest.target)
      rec == Fresh("load")
  IN /\ cfg.kind = "file" /\ Idle(c) /\ ncalls < MaxCalls
     /\ ncalls' = ncalls + 1
     /\ IF latest.t = "symlink" /\ p \in DOMAIN files
        THEN Set(c, [Ret(rec, "") EXCEPT
                       !.stream = [NoStream EXCEPT !.src = "file", !.path = p,
                                                   !.data = files[p]]])
        ELSE Set(c, Ret(rec, "no such file or directory"))
     /\ UNCHANGED <<boot, now, files, latest, tmp, tmpSeq, completed, lastOK, intact, orphan>>

\* -------------------------------------------------------------- S3 backend
\* The error of a GET of an object: a transport failure or an expired
\* deadline, else not-found when the object is absent.
DownloadErrIgnoresMissing(present, fault) ==
  IF fault THEN "transport" ELSE ""

DownloadErr(present, fault) ==
  IF fault THEN "transport" ELSE IF ~present THEN "not found" ELSE ""

\* The object of key k among fs.
GetObject(fs, k) ==
  IF k \in DOMAIN fs THEN [found |-> TRUE, body |-> fs[k]]
  ELSE [found |-> FALSE, body |-> <<>>]

S3snapshotPath(ts) == cfg.key \o <<snapshotFilename, FormatInt(ts)>>
S3latestPath == cfg.key \o <<snapshotFilename, latestSuffix>>

\* AmazonSnapshotter.Save: defer r.Close(), the deadline context and its
\* deferred cancel, the keys.
S3Save_Begin(c, r) ==
  /\ cfg.kind = "s3" /\ Idle(c) /\ ncalls < MaxCalls
  /\ ncalls' = ncalls + 1
  /\ Set(c, [Fresh("save") EXCEPT !.pc = "upload", !.data = r, !.ts = now,
                                   !.defers = <<"r.Close", "cancel">>])
  /\ UNCHANGED <<boot, now, files, latest, tmp, tmpSeq, completed, lastOK, intact, orphan>>

\* UploadWithContext of the image: the object appears whole, or not at all.
S3Save_Upload(c) ==
  LET rec == call[c]
      k == S3snapshotPath(rec.ts)
  IN /\ rec.op = "save" /\ rec.pc = "upload" /\ cfg.kind = "s3"
     /\ \E ok \in BOOLEAN :
          IF ok
          THEN /\ files' = [x \in DOMAIN files \cup {k} |-> IF x = k THEN rec.data ELSE files[x]]
               /\ completed' = completed \cup {k}
               /\ Set(c, [rec EXCEPT !.pc = "latest", !.imgDone = TRUE])
               /\ UNCHANGED <<lastOK, intact, orphan>>
          ELSE /\ Set(c, Ret([rec EXCEPT !.fault = TRUE], "upload"))
               /\ Returned(Ret(rec, "upload"))
               /\ UNCHANGED <<files, completed>>
     /\ UNCHANGED <<boot, now, latest, tmp, tmpSeq, ncalls>>

\* The pointer object a Save of second ts uploads.
S3LatestBlob(ts) == Blob(generate(LatestFile(S3snapshotPath(ts), FormatStamp(ts))))

\* generate, then UploadWithContext of the pointer; return its error.
S3Save_UploadLatest(c) ==
  LET rec == [call[c] EXCEPT !.ptrBegun = TRUE]
  IN /\ rec.op = "save" /\ rec.pc = "latest" /\ cfg.kind = "s3"
     /\ \E ok \in BOOLEAN :
          LET out == Ret([rec EXCEPT !.fault = ~ok, !.ptrFailed = ~ok],
                         IF ok THEN "" ELSE "upload latest")
          IN /\ latest' = IF ok THEN S3LatestBlob(rec.ts) ELSE latest
             /\ Set(c, out)
             /\ Returned(out)
     /\ UNCHANGED <<boot, now, files, tmp, tmpSeq, ncalls, completed>>

\* AmazonSnapshotter.Load: ioutil.TempFile, then the deadline context and
\* its deferred cancel.
S3Load_TempFile(c) ==
  /\ cfg.kind = "s3" /\ Idle(c) /\ ncalls < MaxCalls
  /\ ncalls' = ncalls + 1
  /\ \E ok \in BOOLEAN :
       IF ok
       THEN /\ tmpSeq' = tmpSeq + 1
            /\ tmp' = tmp @@ ((tmpSeq + 1) :> <<>>)
            /\ Set(c, [Fresh("load") EXCEPT !.pc = "getlatest", !.tmp = tmpSeq + 1,
                                             !.defers = <<"cancel">>])
       ELSE /\ Set(c, Ret([Fresh("load") EXCEPT !.fault = TRUE], "tempfile"))
            /\ UNCHANGED <<tmp, tmpSeq>>
  /\ UNCHANGED <<boot, now, files, latest, completed, lastOK, intact, orphan>>

\* The download of the pointer object into memory and LatestFile.read.
S3Load_GetLatest(c) ==
  LET rec == call[c]
  IN /\ rec.op = "load" /\ rec.pc = "getlatest" /\ cfg.kind = "s3"
     /\ \E fault \in BOOLEAN :
          LET derr == DownloadErr(latest.t = "blob", fault)
              rd == read(latest)
          IN IF derr # ""
             THEN Set(c, Ret([rec EXCEPT !.fault = fault],
                             "unable to retrieve latest backup pointer file"))
             ELSE IF rd.err # ""
             THEN Set(c, Ret(rec, "unable to unmarshal latest backup pointer file"))
             ELSE Set(c, [rec EXCEPT !.pc = "download", !.lpath = rd.l.Path])
     /\ UNCHANGED <<boot, now, files, latest, tmp, tmpSeq, ncalls, completed, lastOK, intact, orphan>>

\* The download of the image into the temporary file; on an error the
\* file is closed and the function returns.
S3Load_Download(c) ==
  LET rec == call[c]
  IN /\ rec.op = "load" /\ rec.pc = "download" /\ cfg.kind = "s3"
     /\ \E fault \in BOOLEAN :
          LET obj == GetObject(files, rec.lpath)
              derr == DownloadErr(obj.found, fault)
          IN IF derr # ""
             THEN /\ Set(c, Ret([rec EXCEPT !.fault = fault], "cannot download file"))
                  /\ UNCHANGED tmp
             ELSE /\ tmp' = [tmp EXCEPT ![rec.tmp] = obj.body]
                  /\ Set(c, [rec EXCEPT !.pc = "seek"])
     /\ UNCHANGED <<boot, now, files, latest, tmpSeq, ncalls, completed, lastOK, intact, orphan>>

\* tmpFile.Seek(0, 0), then return the temporary file as the stream.
S3Load_Seek(c) ==
  LET rec == call[c]
  IN /\ rec.op = "load" /\ rec.pc = "seek" /\ cfg.kind = "s3"
     /\ \E ok \in BOOLEAN :
          IF ok
          THEN Set(c, [Ret(rec, "") EXCEPT
                         !.stream = [NoStream EXCEPT !.src = "tmp", !.tmp = rec.tmp,
                                                     !.data = tmp[rec.tmp]]])
          ELSE Set(c, Ret([rec EXCEPT !.fault = TRUE], "seek"))
     /\ UNCHANGED <<boot, now, files, latest, tmp, tmpSeq, ncalls, completed, lastOK, intact, orphan>>

\* ----------------------------------------------------------- Azure backend
AzsnapshotPath(ts) == <<snapshotFilename, FormatInt(ts)>>
AzlatestPath == <<snapshotFilename, latestSuffix>>

\* azureSnapshotter.Save: defer r.Close(), the deadline context and its
\* deferred cancel, the blob names.
AzureSave_Begin(c, r) ==
  /\ cfg.kind = "azure" /\ Idle(c) /\ ncalls < MaxCalls
  /\ ncalls' = ncalls + 1
  /\ Set(c, [Fresh("save") EXCEPT !.pc = "createtemp", !.data = r, !.ts = now,
                                   !.defers = <<"r.Close", "cancel">>])
  /\ UNCHANGED <<boot, now, files, latest, tmp, tmpSeq, completed, lastOK, intact, orphan>>

\* os.CreateTemp; defer os.Remove(tmp.Name()).
AzureSave_CreateTemp(c) ==
  LET rec == call[c]
  IN /\ rec.op = "save" /\ rec.pc = "createtemp" /\ cfg.kind = "azure"
     /\ \E ok \in BOOLEAN :
          IF ok
          THEN /\ tmpSeq' = tmpSeq + 1
               /\ tmp' = tmp @@ ((tmpSeq + 1) :> <<>>)
               /\ Set(c, [rec EXCEPT !.pc = "copy", !.tmp = tmpSeq + 1,
                                      !.defers = Append(@, "os.Remove")])
               /\ UNCHANGED <<lastOK, intact, orphan>>
          ELSE /\ Set(c, Ret([rec EXCEPT !.fault = TRUE], "createtemp"))
               /\ Returned(Ret(rec, "createtemp"))
               /\ UNCHANGED <<tmp, tmpSeq>>
     /\ UNCHANGED <<boot, now, files, latest, ncalls, completed>>

\* io.Copy(tmp, r): the staging file gets the stream, or a part of it and
\* the function returns the error.
AzureSave_Copy(c) ==
  LET rec == call[c]
  IN /\ rec.op = "save" /\ rec.pc = "copy" /\ cfg.kind = "azure"
     /\ \E n \in 0..Len(rec.data), ok \in BOOLEAN :
          IF ok
          THEN /\ n = Len(rec.data)
               /\ tmp' = [tmp EXCEPT ![rec.tmp] = rec.data]
               /\ Set(c, [rec EXCEPT !.pc = "upload"])
               /\ UNCHANGED <<lastOK, intact, orphan>>
          ELSE LET out == Ret([rec EXCEPT !.fault = TRUE], "copy")
               IN /\ tmp' = [i \in DOMAIN TmpAfter(out) |->
                               IF i = rec.tmp THEN SubSeq(rec.data, 1, n) ELSE tmp[i]]
                  /\ Set(c, out)
                  /\ Returned(out)
     /\ UNCHANGED <<boot, now, files, latest, tmpSeq, ncalls, completed>>

\* uploadFile: UploadFileToBlockBlob of the staging file (read by offset,
\* over its whole size); the blob appears whole, or not at all.
AzureSave_UploadFile(c) ==
  LET rec == call[c]
      k == AzsnapshotPath(rec.ts)
  IN /\ rec.op = "save" /\ rec.pc = "upload" /\ cfg.kind = "azure"
     /\ \E ok \in BOOLEAN :
          IF ok
          THEN /\ files' = [x \in DOMAIN files \cup {k} |-> IF x = k THEN tmp[rec.tmp] ELSE files[x]]
               /\ completed' = completed \cup {k}
               /\ Set(c, [rec EXCEPT !.pc = "latest", !.imgDone = TRUE])
               /\ UNCHANGED <<tmp, lastOK, intact, orphan>>
          ELSE LET out == Ret([rec EXCEPT !.fault = TRUE], "upload")
               IN /\ tmp' = TmpAfter(out)
                  /\ Set(c, out)
                  /\ Returned(out)
                  /\ UNCHANGED <<files, completed>>
     /\ UNCHANGED <<boot, now, latest, tmpSeq, ncalls>>

\* The pointer blob a Save of second ts uploads.
AzLatestBlob(ts) == Blob(generate(LatestFile(AzsnapshotPath(ts), FormatStamp(ts))))

\* updateLatest: generate, uploadBytes to the pointer blob; return its error.
AzureSave_UpdateLatest(c) ==
  LET rec == [call[c] EXCEPT !.ptrBegun = TRUE]
  IN /\ rec.op = "save" /\ rec.pc = "latest" /\ cfg.kind = "azure"
     /\ \E ok \in BOOLEAN :
          LET out == Ret([rec EXCEPT !.fault = ~ok, !.ptrFailed = ~ok],
                         IF ok THEN "" ELSE "upload latest")
          IN /\ latest' = IF ok THEN AzLatestBlob(rec.ts) ELSE latest
             /\ tmp' = TmpAfter(out)
             /\ Set(c, out)
             /\ Returned(out)
     /\ UNCHANGED <<boot, now, files, tmpSeq, ncalls, completed>>

\* azureSnapshotter.Load: the deadline context and its deferred cancel,
\* getLatestSnapshotInfo (download of the pointer blob, json Decode).
AzureLoad_GetLatest(c) ==
  LET rec == [Fresh("load") EXCEPT !.defers = <<"cancel">>]
  IN /\ cfg.kind = "azure" /\ Idle(c) /\ ncalls < MaxCalls
     /\ ncalls' = ncalls + 1
     /\ \E fault \in BOOLEAN :
          LET derr == DownloadErr(latest.t = "blob", fault)
              rd == read(latest)
          IN IF derr # ""
             THEN Set(c, Ret([rec EXCEPT !.fault = fault], derr))
             ELSE IF rd.err # ""
             THEN Set(c, Ret(rec, rd.err))
             ELSE Set(c, [rec EXCEPT !.pc = "download", !.lpath = rd.l.Path])
     /\ UNCHANGED <<boot, now, files, latest, tmp, tmpSeq, completed, lastOK, intact, orphan>>

\* client.Download of the blob the pointer names; return resp.Body, a
\* stream that reads the response under the deadline context of Load.
AzureLoad_Download(c) ==
  LET rec == call[c]
  IN /\ rec.op = "load" /\ rec.pc = "download" /\ cfg.kind = "azure"
     /\ \E fault \in BOOLEAN :
          LET obj == GetObject(files, rec.lpath)
              derr == DownloadErr(obj.found, fault)
          IN IF derr # ""
             THEN Set(c, Ret([rec EXCEPT !.fault = fault], derr))
             ELSE Set(c, [Ret(rec, "") EXCEPT
                            !.stream = [NoStream EXCEPT !.src = "body", !.data = obj.body]])
     /\ UNCHANGED <<boot, now, files, latest, tmp, tmpSeq, ncalls, completed, lastOK, intact, orphan>>

\* ----------------------------------------------------------------- caller
\* What reading a stream of Load to its end gives: the bytes of a file, or
\* of an HTTP body while its request context lives. Once that context is
\* cancelled the transport closes the connection, and the read of a body
\* that is not empty gives all the bytes (they were buffered already) or an
\* error.
ReadOutcomes(rec) ==
  IF rec.stream.src = "body" /\ rec.ctxDone /\ rec.stream.data # <<>>
  THEN {[got |-> rec.stream.data, rerr |-> ""],
        [got |-> <<>>, rerr |-> "context canceled"]}
  ELSE IF rec.stream.src = "file"
  THEN {[got |-> files[rec.stream.path], rerr |-> ""]}
  ELSE IF rec.stream.src = "tmp"
  THEN {[got |-> tmp[rec.stream.tmp], rerr |-> ""]}
  ELSE {[got |-> rec.stream.data, rerr |-> ""]}

\* ioutil.ReadAll of the stream Load returned.
ReadAll(c) ==
  LET rec == call[c]
  IN /\ rec.op = "load" /\ rec.pc = "done" /\ rec.err = ""
     /\ \E o \in ReadOutcomes(rec) :
          Set(c, [rec EXCEPT !.pc = "read", !.got = o.got, !.rerr = o.rerr])
     /\ UNCHANGED <<boot, now, files, latest, tmp, tmpSeq, ncalls, completed, lastOK, intact, orphan>>

\* ------------------------------------------------------------ environment
Tick ==
  /\ \A c \in Clients : Idle(c)
  /\ now < MaxTime
  /\ now' = now + 1
  /\ UNCHANGED <<boot, files, latest, tmp, tmpSeq, ncalls, call, completed, lastOK, intact, orphan>>

\* The calls that have returned, once the store changed from outside.
Stale == [c \in Clients |-> [call[c] EXCEPT !.stale = call[c].pc # "idle"]]

\* The expiration of an object by a lifecycle rule of the bucket (the rule
\* newAmazonSnapshotter installs covers every key under the prefix) or of
\* the container.
Expire ==
  /\ (cfg.kind = "s3" /\ cfg.retentionTime > 0) \/ cfg.kind = "azure"
  /\ \A c \in Clients : Idle(c)
  /\ \/ \E k \in DOMAIN files :
          /\ files' = [x \in DOMAIN files \ {k} |-> files[x]]
          /\ UNCHANGED latest
     \/ /\ latest.t # "none"
        /\ latest' = NoEntry
        /\ UNCHANGED files
  /\ intact' = FALSE
  /\ orphan' = NoOrphan
  /\ call' = Stale
  /\ UNCHANGED <<boot, now, tmp, tmpSeq, ncalls, completed, lastOK>>

\* Another writer of the bucket or container leaves bytes that are not a
\* pointer record under the pointer's name.
ForeignWrite ==
  /\ cfg.kind \in {"s3", "azure"}
  /\ \A c \in Clients : Idle(c)
  /\ latest # Garbage
  /\ latest' = Garbage
  /\ intact' = FALSE
  /\ orphan' = NoOrphan
  /\ call' = Stale
  /\ UNCHANGED <<boot, now, files, tmp, tmpSeq, ncalls, completed, lastOK>>

Next ==
  \E c \in {1} :
    \/ \E r \in Images : FileSave_Begin(c, r)
    \/ FileSave_OpenFile(c)
    \/ FileSave_RemoveLatest(c)
    \/ FileSave_Symlink(c)
    \/ FileSave_Copy(c)
    \/ FileSave_Prune(c)
    \/ FileLoad(c)
    \/ \E r \in Images : S3Save_Begin(c, r)
    \/ S3Save_Upload(c)
    \/ S3Save_UploadLatest(c)
    \/ S3Load_TempFile(c)
    \/ S3Load_GetLatest(c)
    \/ S3Load_Download(c)
    \/ S3Load_Seek(c)
    \/ \E r \in Images : AzureSave_Begin(c, r)
    \/ AzureSave_CreateTemp(c)
    \/ AzureSave_Copy(c)
    \/ AzureSave_UploadFile(c)
    \/ AzureSave_UpdateLatest(c)
    \/ AzureLoad_GetLatest(c)
    \/ AzureLoad_Download(c)
    \/ ReadAll(c)
    \/ Tick
    \/ Expire
    \/ ForeignWrite

\* ------------------------------------------------------------- properties
Remote == cfg.kind \in {"s3", "azure"}

\* The path or key of the image a Save of second ts writes.
ImagePath(ts) ==
  IF cfg.kind = "file" THEN snapshotFile(ts)
  ELSE IF cfg.kind = "s3" THEN S3snapshotPath(ts)
  ELSE AzsnapshotPath(ts)

\* The pointer entry is there and can be followed.
PtrReadable(l) == l.t = "symlink" \/ (l.t = "blob" /\ l.json)

\* The path or key the pointer entry l leads to.
PtrRef(l) ==
  IF l.t = "symlink" THEN Resolve(latestSymlink, l.target) ELSE Field(l.doc, "Path")

SaveReturned(c) == call[c].op = "save" /\ call[c].pc = "done"
LoadReturned(c) == call[c].op = "load" /\ call[c].pc \in {"done", "read"}

\* A Load meets no transport failure, after Saves that all returned nil:
\* it returns nil, and reading its stream to the end gives the bytes of
\* the last Save.
LoadYieldsLastSave(c) ==
  (LoadReturned(c) /\ call[c].lastOK0.some /\ ~call[c].fault)
    => /\ call[c].err = ""
       /\ call[c].pc = "read" => (call[c].rerr = "" /\ call[c].got = call[c].lastOK0.data)

\* C1: on the S3 and Azure backends, after successful saves s1..sn issued one
\* at a time, a load succeeds and its stream yields exactly the bytes of sn.
C1_RemoteLoadYieldsLastSave ==
  \A c \in Clients : Remote => LoadYieldsLastSave(c)

\* C2: on the local directory backend (the directory given by an absolute
\* path), after successful saves s1..sn, two of them in the same second and
\* the later image shorter included, a load returns exactly the bytes of sn.
C2_LocalLoadYieldsLastSave ==
  \A c \in Clients : (cfg.kind = "file" /\ IsAbs(cfg.path)) => LoadYieldsLastSave(c)

\* C3: in every backend, within one save the pointer update begins only
\* after the image has been written completely.
C3_PointerAfterImage ==
  \A c \in Clients : (call[c].op = "save" /\ call[c].ptrBegun) => call[c].imgDone

\* C4 (invariant I1): in every reachable state, the states between the steps
\* of a save and those a failed save leaves included, the pointer record, if
\* it is present and parseable, references an image that was written to
\* completion (the directory of the local backend given by an absolute path).
C4_PointerReferencesCompleteImage ==
  (cfg.kind = "file" => IsAbs(cfg.path))
    => (PtrReadable(latest) => PtrRef(latest) \in completed)

\* C5: save returns nil only if, when it returns, the image is fully written
\* and the pointer record references that image.
C5_SuccessMeansImageAndPointer ==
  \A c \in Clients :
    (SaveReturned(c) /\ call[c].err = "" /\ ~call[c].stale)
      => /\ PtrReadable(latest)
         /\ PtrRef(latest) = ImagePath(call[c].ts)
         /\ ImagePath(call[c].ts) \in DOMAIN files
         /\ files[ImagePath(call[c].ts)] = call[c].data

\* C6: on S3 and Azure, when the image upload succeeds and the pointer upload
\* fails, save returns an error, the new image object is in the store, the
\* pointer keeps its value, and a following load returns the image the
\* pointer referenced before the save (or fails, the pointer missing, when no
\* save had succeeded before).
C6_OrphanOnPointerFailure ==
  \A c \in Clients :
    /\ (Remote /\ SaveReturned(c) /\ call[c].ptrFailed /\ ~call[c].stale)
         => /\ call[c].err # ""
            /\ ImagePath(call[c].ts) \in DOMAIN files
            /\ latest = call[c].latest0
    /\ (Remote /\ LoadReturned(c) /\ orphan.on /\ ~call[c].stale /\ ~call[c].fault)
         => /\ orphan.prev.what = "image"
                 => (call[c].err = "" /\ call[c].stream.data = orphan.prev.data)
            /\ orphan.prev.what = "missing" => call[c].err # ""

\* C7: in every backend, when a save fails before the image has been written
\* completely, the pointer record is as it was before the save began (the
\* directory of the local backend given by an absolute path).
C7_FailedSaveKeepsPointer ==
  \A c \in Clients :
    (/\ SaveReturned(c) /\ call[c].err # "" /\ ~call[c].imgDone /\ ~call[c].stale
     /\ cfg.kind = "file" => IsAbs(cfg.path))
      => latest = call[c].latest0

\* C8: in every backend the input stream of save is closed when save
\* returns, on success and on an error at any step.
C8_InputClosedOnReturn ==
  \A c \in Clients : SaveReturned(c) => call[c].closed

\* A save returned the error of the retention listing, its input closed.
C8_Witness ==
  \E c \in Clients :
    /\ SaveReturned(c) /\ call[c].closed
    /\ call[c].err = "unable to list snapshot directory during pruning"

\* C9: load returns an error and no stream when no pointer record exists,
\* when it cannot be deserialized, or when the image it names is missing;
\* and a load, failed or not, leaves the pointer record and every stored
\* image as they were.
C9_LoadFailsCleanly ==
  \A c \in Clients :
    call[c].op = "load"
      => /\ ~call[c].stale => (files = call[c].files0 /\ latest = call[c].latest0)
         /\ (LoadReturned(c) /\ LoadView(call[c].latest0, call[c].files0).what # "image")
              => (call[c].err # "" /\ call[c].stream = NoStream)

\* A load met no transport failure and returned an error: the pointer
\* record named an image that is not in the store.
C9_Witness ==
  \E c \in Clients :
    /\ LoadReturned(c) /\ ~call[c].fault /\ call[c].err # ""
    /\ call[c].latest0.t = "blob" /\ call[c].latest0.json
    /\ Field(call[c].latest0.doc, "Path") \notin DOMAIN call[c].files0
    /\ call[c].stream = NoStream
    /\ files = call[c].files0 /\ latest = call[c].latest0

\* C10: the temporary file of an Azure save is gone when the save returns,
\* and the temporary file of an S3 load is gone when the load returns an
\* error.
C10_TempFilesRemoved ==
  \A c \in Clients :
    (/\ call[c].pc \in {"done", "read"} /\ call[c].tmp # 0
     /\ \/ cfg.kind = "azure" /\ call[c].op = "save"
        \/ cfg.kind = "s3" /\ call[c].op = "load" /\ call[c].err # "")
      => call[c].tmp \notin DOMAIN tmp

\* C13: an image, once a save has written it completely, is never modified
\* by a later save, one that starts in the same second included: while the
\* image is in the store its bytes stay as they are.
C13_ImagesNeverModified ==
  [][\A p \in completed \cap DOMAIN files :
       p \in DOMAIN files' => files'[p] = files[p]]_vars

\* C22: on the local backend, after a save that returned nil the symlink
\* etcd.snapshot.LATEST resolves to the image file that save wrote, and a
\* load of the directory as the save left it opens that file; for a
\* directory given by an absolute path and for one given by a relative path.
C22_SymlinkResolvesToImage ==
  \A c \in Clients :
    /\ (cfg.kind = "file" /\ SaveReturned(c) /\ call[c].err = "")
         => /\ latest.t = "symlink"
            /\ Resolve(latestSymlink, latest.target) = snapshotFile(call[c].ts)
    /\ (cfg.kind = "file" /\ LoadReturned(c) /\ call[c].lastOK0.some)
         => /\ call[c].err = ""
            /\ call[c].stream.src = "file"
            /\ call[c].stream.path = call[c].latest0.target

\* The retention listing of a save did not fail.
Listed(c) == call[c].err # "unable to list snapshot directory during pruning"

\* C23: on the local backend, when the copy of the input stream into the
\* image file fails, save returns the error of the copy (also after a
\* retention listing that succeeded) and the symlink references the new
\* image file, which holds the bytes copied before the failure.
C23_CopyFailureKeepsNewPointer ==
  \A c \in Clients :
    (cfg.kind = "file" /\ SaveReturned(c) /\ call[c].cerr = "copy" /\ Listed(c))
      => /\ call[c].err = "copy"
         /\ latest.t = "symlink"
         /\ Resolve(latestSymlink, latest.target) = snapshotFile(call[c].ts)
         /\ snapshotFile(call[c].ts) \in DOMAIN files

\* C24: after an Azure load has returned nil, the caller reads the returned
\* stream to its end and gets every byte of the image the load downloaded,
\* the deadline context of the load released or not.
C24_AzureStreamReadable ==
  \A c \in Clients :
    (cfg.kind = "azure" /\ call[c].op = "load" /\ call[c].pc = "read")
      => (call[c].rerr = "" /\ call[c].got = call[c].stream.data)

\* C25: on the local backend, when a pointer entry was there as a save
\* began, one is there when that save has returned, with nil or with the
\* error of any of its steps; and when a load of the directory would have
\* succeeded as the save began, a load succeeds after the save has returned.
C25_PointerSurvivesSave ==
  \A c \in Clients :
    (cfg.kind = "file" /\ SaveReturned(c))
      => /\ call[c].latest0.t # "none" => latest.t # "none"
         /\ LoadView(call[c].latest0, call[c].files0).what = "image"
              => LoadView(latest, files).what = "image"

\* ------------------------------------------------------------- concurrency
\* The clock advances, calls in flight or not.
TickAny ==
  /\ now < MaxTime
  /\ now' = now + 1
  /\ UNCHANGED <<boot, files, latest, tmp, tmpSeq, ncalls, call, completed, lastOK, intact, orphan>>

\* One store of each kind, the local directory given by an absolute path.
InitConcurrent ==
  Init /\ cfg.retentionTime = 0 /\ (cfg.kind = "file" => IsAbs(cfg.path))

\* Saves of callers 1 and 2 and loads of caller 3, their steps interleaved.
NextConcurrent ==
  \/ \E c \in {1, 2} :
       \/ \E r \in Images : FileSave_Begin(c, r)
       \/ FileSave_OpenFile(c)
       \/ FileSave_RemoveLatest(c)
       \/ FileSave_Symlink(c)
       \/ FileSave_Copy(c)
       \/ FileSave_Prune(c)
       \/ \E r \in Images : S3Save_Begin(c, r)
       \/ S3Save_Upload(c)
       \/ S3Save_UploadLatest(c)
       \/ \E r \in Images : AzureSave_Begin(c, r)
       \/ AzureSave_CreateTemp(c)
       \/ AzureSave_Copy(c)
       \/ AzureSave_UploadFile(c)
       \/ AzureSave_UpdateLatest(c)
  \/ \E c \in {3} :
       \/ FileLoad(c)
       \/ S3Load_TempFile(c)
       \/ S3Load_GetLatest(c)
       \/ S3Load_Download(c)
       \/ S3Load_Seek(c)
       \/ AzureLoad_GetLatest(c)
       \/ AzureLoad_Download(c)
       \/ ReadAll(c)
  \/ TickAny

\* The images a load of caller c may hand out whole: an image passed to a
\* save, or what the pointer led to when the load began.
Whole(c) == Images \cup {LoadView(call[c].latest0, call[c].files0).data}

\* C14 (invariant I3): a load that runs concurrently with a save, interleaved
\* at any step of it, returns a complete image, never a partially written
\* one, and it does not find the pointer absent once a pointer has existed
\* (one was there when the load began, or a save had returned nil before).
C14_ConcurrentLoadSeesWholeImage ==
  (LoadReturned(3) /\ ~call[3].fault)
    => /\ (call[3].latest0.t # "none" \/ call[3].lastOK0.some) => call[3].err = ""
       /\ call[3].err = "" => call[3].stream.data \in Whole(3)
       /\ (call[3].pc = "read" /\ call[3].rerr = "") => call[3].got \in Whole(3)

\* C15: two backend instances save concurrently into the same bucket or
\* container and prefix; after both saves have returned nil the pointer
\* references a completely written image, and a load of the store they left
\* returns exactly the bytes passed to one of the two saves (these two saves
\* and that load are the only calls).
C15_ConcurrentSavesLastWriterWins ==
  LET both == {call[1].data, call[2].data}
  IN (/\ Remote
      /\ ncalls = IF call[3].op = "load" THEN 3 ELSE 2
      /\ SaveReturned(1) /\ call[1].err = ""
      /\ SaveReturned(2) /\ call[2].err = "")
       => /\ PtrReadable(latest)
          /\ PtrRef(latest) \in completed \cap DOMAIN files
          /\ files[PtrRef(latest)] \in both
          /\ (/\ LoadReturned(3) /\ ~call[3].fault
              /\ call[3].latest0 = latest /\ call[3].files0 = files)
               => /\ call[3].err = ""
                  /\ call[3].stream.data \in both
                  /\ call[3].pc = "read" => (call[3].rerr = "" /\ call[3].got \in both)

\* ------------------------------------------------------- backup URL parser
\* A URL text is a sequence of characters.
HasSuffix(s, suf) ==
  Len(suf) <= Len(s) /\ SubSeq(s, Len(s) - Len(suf) + 1, Len(s)) = suf

\* A TrimPrefix that leaves the text as it is.
TrimPrefixNothing(s, pre) == s

TrimPrefix(s, pre) ==
  IF HasPrefix(s, pre) THEN SubSeq(s, Len(pre) + 1, Len(s)) ELSE s

Letters == DOMAIN LowerOf \cup {LowerOf[x] : x \in DOMAIN LowerOf}
            \cup {"d", "k", "m", "n", "o", "w", "x", "y"}
Digits == {Decimal[i] : i \in 1..Len(Decimal)}

\* The position of the first ch in s, 0 when there is none.
Index(s, ch) ==
  LET at == {i \in 1..Len(s) : s[i] = ch}
  IN IF at = {} THEN 0 ELSE CHOOSE i \in at : \A j \in at : i <= j

\* var schemes.
schemes ==
  << <<"f", "i", "l", "e", ":", "/", "/">>,
     <<"s", "3", ":", "/", "/">>,
     <<"h", "t", "t", "p", ":", "/", "/">>,
     <<"h", "t", "t", "p", "s", ":", "/", "/">> >>

hasValidScheme(s) == \E i \in 1..Len(schemes) : HasPrefix(s, schemes[i])

\* net/url getScheme: the letters, digits, '+', '-', '.' before the first
\* ':' (the first a letter); no scheme when another character comes first or
\* there is no ':'; an error when the text begins with ':'.
getScheme(s) ==
  LET ok(i) == s[i] \in Letters \/ (i > 1 /\ s[i] \in Digits \cup {"+", "-", "."})
      stop == {i \in 1..Len(s) : ~ok(i)}
      first == IF stop = {} THEN 0 ELSE CHOOSE i \in stop : \A j \in stop : i <= j
  IN IF first = 0 \/ s[first] # ":"
     THEN [err |-> "", scheme |-> <<>>, rest |-> s]
     ELSE IF first = 1
     THEN [err |-> "missing protocol scheme", scheme |-> <<>>, rest |-> <<>>]
     ELSE [err |-> "", scheme |-> SubSeq(s, 1, first - 1),
           rest |-> SubSeq(s, first + 1, Len(s))]

\* url.Parse of a text without userinfo, port, query, fragment or escapes:
\* the scheme in lower case; after "//" the host up to the next '/', and the
\* path from there; a rest that does not begin with '/' is opaque when
\* there is a scheme, the path otherwise (its first segment without ':').
Parse(s) ==
  LET g == getScheme(s)
      none == [err |-> "", Scheme |-> <<>>, Opaque |-> <<>>, Host |-> <<>>, Path |-> <<>>]
      u == [none EXCEPT !.Scheme = ToLower(g.scheme)]
      auth == SubSeq(g.rest, 3, Len(g.rest))
      cut == Index(auth, "/")
      seg == IF Index(g.rest, "/") = 0 THEN g.rest
             ELSE SubSeq(g.rest, 1, Index(g.rest, "/") - 1)
  IN IF g.err # "" THEN [none EXCEPT !.err = g.err]
     ELSE IF ~HasPrefix(g.rest, <<"/">>) /\ g.scheme # <<>>
     THEN [u EXCEPT !.Opaque = g.rest]
     ELSE IF ~HasPrefix(g.rest, <<"/">>) /\ Index(seg, ":") # 0
     THEN [none EXCEPT !.err = "first path segment in URL cannot contain colon"]
     ELSE IF HasPrefix(g.rest, <<"/", "/">>)
             /\ (g.scheme # <<>> \/ ~HasPrefix(g.rest, <<"/", "/", "/">>))
     THEN IF cut = 0 THEN [u EXCEPT !.Host = auth]
          ELSE [u EXCEPT !.Host = SubSeq(auth, 1, cut - 1),
                         !.Path = SubSeq(auth, cut, Len(auth))]
     ELSE [u EXCEPT !.Path = g.rest]

\* strings.Split(s, "/").
RECURSIVE Split(_)
Split(s) ==
  LET i == Index(s, "/")
  IN IF i = 0 THEN <<s>> ELSE <<SubSeq(s, 1, i - 1)>> \o Split(SubSeq(s, i + 1, Len(s)))

\* The elements filepath.Clean keeps: it drops the empty ones and ".", and
\* ".." takes back the element before it (at the root it is dropped, at the
\* start of a relative path it stays).
RECURSIVE CleanElems(_, _, _)
CleanElems(segs, out, rooted) ==
  IF segs = <<>> THEN out
  ELSE LET e == Head(segs)
           rest == Tail(segs)
       IN IF e = <<>> \/ e = <<".">> THEN CleanElems(rest, out, rooted)
          ELSE IF e = <<".", ".">>
          THEN IF out # <<>> /\ out[Len(out)] # <<".", ".">>
               THEN CleanElems(rest, SubSeq(out, 1, Len(out) - 1), rooted)
               ELSE IF rooted THEN CleanElems(rest, out, rooted)
               ELSE CleanElems(rest, Append(out, e), rooted)
          ELSE CleanElems(rest, Append(out, e), rooted)

\* strings.Join(elems, "/").
RECURSIVE JoinSlash(_)
JoinSlash(elems) ==
  IF elems = <<>> THEN <<>>
  ELSE IF Len(elems) = 1 THEN elems[1]
  ELSE elems[1] \o <<"/">> \o JoinSlash(Tail(elems))

\* filepath.Clean: "." for the empty path, a rooted path keeps its root.
Clean(path) ==
  LET rooted == HasPrefix(path, <<"/">>)
      kept == JoinSlash(CleanElems(Split(path), <<>>, rooted))
  IN IF rooted THEN <<"/">> \o kept
     ELSE IF kept = <<>> THEN <<".">> ELSE kept

\* filepath.Join(a, b): the empty elements before the first non-empty one
\* are left out, the others joined with "/" and cleaned.
filepathJoin(a, b) ==
  IF a # <<>> THEN Clean(a \o <<"/">> \o b)
  ELSE IF b # <<>> THEN Clean(b)
  ELSE <<>>

\* ParseSnapshotBackupURL(s): the error ("" is nil) and the *URL.
ParseSnapshotBackupURL(s) ==
  LET u == Parse(s)
      scheme == ToLower(u.Scheme)
      path == TrimPrefix(u.Path, <<"/">>)
      fail(e) == [err |-> e, u |-> NilURL]
  IN IF ~hasValidScheme(s) THEN fail("invalid scheme")
     ELSE IF u.err # "" THEN fail(u.err)
     ELSE IF scheme = <<"f", "i", "l", "e">>
     THEN IF ~HasSuffix(u.Path, <<"/">>) THEN fail("path must be a directory")
          ELSE [err |-> "", u |-> URL("FileType", <<>>, filepathJoin(u.Host, u.Path))]
     ELSE IF scheme = <<"s", "3">>
     THEN IF ~HasSuffix(path, <<"/">>) /\ path # <<>> THEN fail("path must be a directory")
          ELSE [err |-> "", u |-> URL("S3Type", u.Host, path)]
     ELSE IF scheme = <<"a", "z", "u", "r", "e">>
     THEN [err |-> "", u |-> URL("AzureType", u.Host, <<>>)]
     ELSE fail("cannot parse url")

\* The URLs given to the parser: a scheme, what follows it, a host and a
\* path, written one after the other.
Wfile == <<"f", "i", "l", "e">>
Ws3 == <<"s", "3">>
Wazure == <<"a", "z", "u", "r", "e">>
Whttp == <<"h", "t", "t", "p">>
Wabc == <<"a", "b", "c">>
Wbackupdir == <<"b", "a", "c", "k", "u", "p", "d", "i", "r">>
Wexample == <<"e", "x", "a", "m", "p", "l", "e", ".", "c", "o", "m">>
Wcontainer == <<"m", "y", "-", "c", "o", "n", "t", "a", "i", "n", "e", "r">>

InputSchemes ==
  {<<>>, Wfile, Ws3, Wazure, Whttp, Whttp \o <<"s">>, <<"f", "t", "p">>,
   <<"F", "I", "L", "E">>, <<"F", "i", "l", "e">>, <<"S", "3">>}
InputSeps == {<<":", "/", "/">>, <<":">>, <<>>}
InputHosts == {<<>>, Wabc, Wexample}
InputPaths ==
  {<<>>, <<"/">>, <<"/">> \o Wabc \o <<"/">>, <<"/">> \o Wbackupdir,
   <<"/">> \o Wbackupdir \o <<"/">>, <<"/">> \o Wabc \o <<"/">> \o Wbackupdir \o <<"/">>,
   <<"/", "x">>, <<"/">> \o Wcontainer}

Inputs == [scheme : InputSchemes, sep : InputSeps, host : InputHosts, path : InputPaths]

Text(u) == u.scheme \o u.sep \o u.host \o u.path

\* No backend has been created.
NoBackend == [kind |-> "none", path |-> <<>>, key |-> <<>>, retentionTime |-> 0]

InitParse ==
  /\ cfg = NoBackend
  /\ url \in Inputs
  /\ parsed = NotParsed
  /\ made = NotMade
  /\ ptr = NoRecord
  /\ InitStore

\* The call ParseSnapshotBackupURL(url).
ParseURL ==
  /\ ~parsed.done
  /\ parsed' = [done |-> TRUE, err |-> ParseSnapshotBackupURL(Text(url)).err,
                u |-> ParseSnapshotBackupURL(Text(url)).u]
  /\ UNCHANGED <<cfg, url, made, ptr, now, files, latest, tmp, tmpSeq, ncalls, call,
                 completed, lastOK, intact, orphan>>

NextParse == ParseURL

\* A URL written as <scheme>://<host><path>.
WellFormed(u) == u.sep = <<":", "/", "/">>

EndsInSlash(t) == t # <<>> /\ t[Len(t)] = "/"

\* t without its last character, the root "/" kept.
DirName(t) == IF t = <<"/">> THEN t ELSE SubSeq(t, 1, Len(t) - 1)

Rejected(e) == parsed.err = e /\ parsed.u = NilURL
Accepted(u) == parsed.err = "" /\ parsed.u = u

C17_AzureLocator ==
  LET segs == Split(IF url.path = <<>> THEN <<>> ELSE Tail(url.path))
  IN (parsed.done /\ WellFormed(url) /\ url.scheme = Wazure)
       => IF url.host = <<>> THEN Rejected("host empty")
          ELSE IF segs[1] = <<>> THEN Rejected("path empty")
          ELSE Accepted(URL("AzureType", url.host, segs[1]))

\* C18: the scheme is matched case-insensitively: a well-formed file or s3
\* URL with its scheme in upper or mixed case is accepted or rejected as its
\* lowercase form is, with the same locator.
C18_SchemeCaseInsensitive ==
  LET lower == ParseSnapshotBackupURL(Text([url EXCEPT !.scheme = ToLower(@)]))
  IN (parsed.done /\ WellFormed(url) /\ ToLower(url.scheme) \in {Wfile, Ws3})
       => (parsed.err = lower.err /\ parsed.u = lower.u)

\* C19: an input whose scheme is missing or is none of file, s3, azure (the
\* empty string, a text without "://", http://example.com/x,
\* https://example.com/x) gets the invalid-scheme error and no locator.
C19_InvalidScheme ==
  (parsed.done /\ (~WellFormed(url) \/ ToLower(url.scheme) \notin {Wfile, Ws3, Wazure}))
    => Rejected("invalid scheme")

\* --------------------------------------------------- pointer record trip
\* At most MaxExtra members are added to a document.
MaxExtra == 2

\* The characters of the fields: a letter, the quote, the backslash, '<',
\* the newline and 'u' (so that the text \u stands in a field).
Alphabet == {"a", "u", "\"", "\\", "<", "\n"}

\* The texts of at most two characters.
Texts == {<<>>} \cup {<<x>> : x \in Alphabet} \cup {<<x, y>> : x \in Alphabet, y \in Alphabet}

\* The pointer records: any text as Path; as Timestamp the stamp of second 0
\* or a text with a quote in it.
Records ==
  {LatestFile(p, t) : p \in Texts, t \in {FormatStamp(0), <<"\"", "0">>}}

\* The members a writer of another version adds: Size and paths are no
\* fields of LatestFile; path is the field Path in another case.
Wsize == <<"S", "i", "z", "e">>
Wpaths == <<"p", "a", "t", "h", "s">>
Wpath == <<"p", "a", "t", "h">>

ExtraMembers ==
  {[k |-> Wsize, v |-> Quote(<<"x">>)], [k |-> Wsize, v |-> <<"1">>],
   [k |-> Wpaths, v |-> <<"{", "}">>], [k |-> Wpaths, v |-> Null],
   [k |-> Wpath, v |-> Quote(<<"x">>)]}

\* doc with member m put in before position at.
Insert(doc, m, at) == SubSeq(doc, 1, at - 1) \o <<m>> \o SubSeq(doc, at, Len(doc))

\* A record is about to be written.
InitRecord ==
  /\ cfg = NoBackend
  /\ url = NoInput
  /\ parsed = NotParsed
  /\ made = NotMade
  /\ ptr \in {[NoRecord EXCEPT !.stage = "new", !.l = l] : l \in Records}
  /\ InitStore

\* The call l.generate() of a Save.
Generate ==
  /\ ptr.stage = "new"
  /\ ptr' = [ptr EXCEPT !.stage = "doc", !.doc = generate(ptr.l)]
  /\ UNCHANGED <<cfg, url, parsed, made, now, files, latest, tmp, tmpSeq, ncalls, call,
                 completed, lastOK, intact, orphan>>

\* The document gets one more member.
AddMember(m, at) ==
  /\ ptr.stage = "doc"
  /\ Len(ptr.doc) < Len(generate(ptr.l)) + MaxExtra
  /\ at \in 1..(Len(ptr.doc) + 1)
  /\ ptr' = [ptr EXCEPT !.doc = Insert(ptr.doc, m, at)]
  /\ UNCHANGED <<cfg, url, parsed, made, now, files, latest, tmp, tmpSeq, ncalls, call,
                 completed, lastOK, intact, orphan>>

\* The call l.read(bytes) of a Load, on a fresh LatestFile.
ReadRecord ==
  /\ ptr.stage = "doc"
  /\ ptr' = [ptr EXCEPT !.stage = "read", !.out = read(Blob(ptr.doc))]
  /\ UNCHANGED <<cfg, url, parsed, made, now, files, latest, tmp, tmpSeq, ncalls, call,
                 completed, lastOK, intact, orphan>>

NextRecord ==
  \/ Generate
  \/ \E m \in ExtraMembers, at \in 1..(2 + MaxExtra + 1) : AddMember(m, at)
  \/ ReadRecord

\* A member whose name is that of a field of LatestFile, in any case.
IsKnown(m) == \E f \in DOMAIN Names : ToLower(m.k) = ToLower(Names[f])

\* doc without the members of unknown names.
Known(doc) == SelectSeq(doc, IsKnown)

\* C21: a pointer record serialized with generate and deserialized with read
\* comes back equal field for field; and read ignores the members of unknown
\* names: it gives what it gives for the document without them.
C21_PointerRoundTrip ==
  ptr.stage = "read"
    => /\ ptr.out = read(Blob(Known(ptr.doc)))
       /\ Known(ptr.doc) = generate(ptr.l) => (ptr.out.err = "" /\ ptr.out.l = ptr.l)

\* A record whose Path is a quote and a backslash came back as it was, from
\* a document with two members of unknown names more.
C21_Witness ==
  /\ ptr.stage = "read"
  /\ ptr.l.Path = <<"\"", "\\">>
  /\ Len(ptr.doc) = 4 /\ Known(ptr.doc) = generate(ptr.l)
  /\ ptr.out.err = "" /\ ptr.out.l = ptr.l

\* ------------------------------------------------------------ constructors
\* What req.Send() of the HeadBucket request gives: nil, an
\* awserr.RequestFailure carrying the HTTP status of the answer, or an error
\* that is no RequestFailure (the request got no HTTP answer).
HeadOutcomes ==
  {HeadOK}
  \cup {[err |-> TRUE, requestFailure |-> TRUE, status |-> st] : st \in {403, 404, 500}}
  \cup {[err |-> TRUE, requestFailure |-> FALSE, status |-> 0]}

\* The block "Ensure that the bucket exists" of both constructors: the
\* error it returns, "" when it goes on.
EnsureBucket(head) ==
  IF head.err /\ head.requestFailure
  THEN IF head.status = 404 THEN "bucket does not exist"
       ELSE IF head.status = 403 THEN "access to bucket forbidden"
       ELSE "bucket could not be accessed"
  ELSE ""

\* The result (s, err) of a constructor.
Result(by, head, err) ==
  [done |-> TRUE, by |-> by, head |-> head, err |-> err, s |-> err = ""]

\* newAmazonSnapshotter: session.NewSession, the HEAD of the bucket, the
\* lifecycle rule when retentionDays > 0, return s, nil.
newAmazonSnapshotter(sess, head, put) ==
  /\ ~made.done /\ cfg.kind = "s3"
  /\ made' = Result("AmazonSnapshotter", head,
                    IF ~sess THEN "session"
                    ELSE IF EnsureBucket(head) # "" THEN EnsureBucket(head)
                    ELSE IF cfg.retentionTime > 0 /\ ~put
                    THEN "unable to put bucket lifecycle policy"
                    ELSE "")
  /\ UNCHANGED <<cfg, url, parsed, ptr, now, files, latest, tmp, tmpSeq, ncalls, call,
                 completed, lastOK, intact, orphan>>

\* digitalocean.NewObjectStore: the HEAD of the bucket, return objs, nil.
NewObjectStore(head) ==
  /\ ~made.done /\ cfg.kind = "s3"
  /\ made' = Result("ObjectStore", head, EnsureBucket(head))
  /\ UNCHANGED <<cfg, url, parsed, ptr, now, files, latest, tmp, tmpSeq, ncalls, call,
                 completed, lastOK, intact, orphan>>

\* An S3 bucket and key; no backend yet.
InitNew ==
  /\ cfg \in Configs /\ cfg.kind = "s3"
  /\ url = NoInput
  /\ parsed = NotParsed
  /\ made = NotMade
  /\ ptr = NoRecord
  /\ InitStore

\* The AmazonSnapshotter the constructor returned is there to be used.
Usable == made.s /\ made.by = "AmazonSnapshotter"

NextNew ==
  \/ \E sess \in BOOLEAN, head \in HeadOutcomes, put \in BOOLEAN :
       newAmazonSnapshotter(sess, head, put)
  \/ \E head \in HeadOutcomes : NewObjectStore(head)
  \/ \E c \in {1} :
       \/ Usable /\ \E r \in Images : S3Save_Begin(c, r)
       \/ S3Save_Upload(c)
       \/ S3Save_UploadLatest(c)
       \/ Usable /\ S3Load_TempFile(c)
       \/ S3Load_GetLatest(c)
       \/ S3Load_Download(c)
       \/ S3Load_Seek(c)
       \/ ReadAll(c)
  \/ Usable /\ Tick

\* C20: the initialization of an S3-family backend fails whenever the HEAD
\* request on the bucket fails: 404 gives bucket-does-not-exist, 403
\* access-forbidden, every other failure, one without an HTTP status
\* included, bucket-inaccessible; and no instance is returned.
C20_HeadFailureFailsInit ==
  (made.done /\ made.head.err /\ made.err # "session")
    => /\ ~made.s
       /\ made.err = IF made.head.requestFailure /\ made.head.status = 404
                     THEN "bucket does not exist"
                     ELSE IF made.head.requestFailure /\ made.head.status = 403
                     THEN "access to bucket forbidden"
                     ELSE "bucket could not be accessed"

\* --------------------------------------------------------------- retention
\* The clock takes the values 0..MaxClock where retention is followed.
MaxClock == 2

\* strconv.ParseInt of one digit, the inverse of FormatInt.
ParseInt(s) == CHOOSE n \in 0..9 : FormatInt(n) = s

\* f.ModTime() of an image file or object. The clock stands still while a
\* call runs, so what a Save of second ts writes under the name
\* etcd.snapshot.<ts> was last modified in second ts.
ModTime(p) == ParseInt(p[Len(p)])

\* The last modification of the pointer object: the second of the Save that
\* uploaded it, which that Save wrote into the Timestamp field.
LatestModTime(l) ==
  CHOOSE n \in 0..9 : FormatStamp(n) = Field(l.doc, "Timestamp")

\* The files the pruning loop of FileSnapshotter.Save selects at time t: not
\* a symlink, the name starting with snapshotFilename, older than
\* retentionTime. It logs each of them ("Would have deleted") and removes
\* none: the os.Remove is commented out.
WouldHaveDeleted(t) ==
  {p \in DOMAIN files :
     /\ HasPrefix(SubSeq(p, Len(cfg.path) + 1, Len(p)), <<snapshotFilename>>)
     /\ t - ModTime(p) > cfg.retentionTime}

\* The lifecycle rule newAmazonSnapshotter puts on the bucket when
\* retentionDays > 0: expiration after Days, for the keys with prefix key. The
\* model counts Days in ticks of its clock.
LifecycleRule == [Prefix |-> cfg.key, Days |-> cfg.retentionTime]

\* S3 expires an object the rule covers, older than Days.
Lifecycle ==
  /\ cfg.kind = "s3" /\ cfg.retentionTime > 0
  /\ \A c \in Clients : Idle(c)
  /\ \/ \E k \in DOMAIN files :
          /\ HasPrefix(k, LifecycleRule.Prefix)
          /\ now - ModTime(k) > LifecycleRule.Days
          /\ files' = [x \in DOMAIN files \ {k} |-> files[x]]
          /\ UNCHANGED latest
     \/ /\ latest.t = "blob" /\ latest.json
        /\ HasPrefix(S3latestPath, LifecycleRule.Prefix)
        /\ now - LatestModTime(latest) > LifecycleRule.Days
        /\ latest' = NoEntry
        /\ UNCHANGED files
  /\ UNCHANGED <<boot, now, tmp, tmpSeq, ncalls, call, completed, lastOK, intact, orphan>>

\* The clock advances between calls, up to MaxClock.
TickLate ==
  /\ \A c \in Clients : Idle(c)
  /\ now < MaxClock
  /\ now' = now + 1
  /\ UNCHANGED <<boot, files, latest, tmp, tmpSeq, ncalls, call, completed, lastOK, intact, orphan>>

\* The backends created with a retention: the local directory and S3.
InitRetention == Init /\ cfg.kind \in {"file", "s3"} /\ cfg.retentionTime > 0

NextRetention ==
  \E c \in {1} :
    \/ \E r \in Images : FileSave_Begin(c, r)
    \/ FileSave_OpenFile(c)
    \/ FileSave_RemoveLatest(c)
    \/ FileSave_Symlink(c)
    \/ FileSave_Copy(c)
    \/ FileSave_Prune(c)
    \/ FileLoad(c)
    \/ \E r \in Images : S3Save_Begin(c, r)
    \/ S3Save_Upload(c)
    \/ S3Save_UploadLatest(c)
    \/ S3Load_TempFile(c)
    \/ S3Load_GetLatest(c)
    \/ S3Load_Download(c)
    \/ S3Load_Seek(c)
    \/ ReadAll(c)
    \/ TickLate
    \/ Lifecycle

\* C11: with local retention R > 0, after a successful save every regular
\* file of the directory whose name starts with the snapshot prefix and that
\* is older than R has been removed.
C11_OldImagesPruned ==
  \A c \in Clients :
    (cfg.kind = "file" /\ cfg.retentionTime > 0 /\ SaveReturned(c) /\ call[c].err = "")
      => WouldHaveDeleted(call[c].ts) = {}

\* The second of the most recent save that wrote its image.
LastSaveTime ==
  LET ts == {ModTime(p) : p \in completed}
  IN CHOOSE t \in ts : \A u \in ts : u <= t

\* A load after saves that all returned nil, the most recent one not older
\* than the retention, succeeds and yields the bytes of that save.
LoadAfterSweep(c) ==
  (/\ LoadReturned(c) /\ call[c].lastOK0.some /\ ~call[c].fault
   /\ completed # {} /\ now - LastSaveTime <= cfg.retentionTime
   /\ cfg.kind = "file" => IsAbs(cfg.path))
    => /\ call[c].err = ""
       /\ call[c].pc = "read" => (call[c].rerr = "" /\ call[c].got = call[c].lastOK0.data)

\* C12: retention never removes the entry etcd.snapshot.LATEST, whatever its
\* age (the entry goes away only where a local save replaces it: neither the
\* local sweep nor the lifecycle rule of the bucket takes it); and after
\* saves and a sweep, the most recent save younger than the retention, load
\* succeeds and returns the bytes of that save.
C12_RetentionKeepsPointer ==
  [][/\ (latest.t # "none" /\ latest'.t = "none")
          => \E c \in Clients : call[c].op = "save" /\ call[c].pc = "lstat"
     /\ \A c \in Clients : LoadAfterSweep(c)']_vars

Spec == Init /\ [][Next]_vars
SpecRetention == InitRetention /\ [][NextRetention]_vars
SpecConcurrent == InitConcurrent /\ [][NextConcurrent]_vars
SpecParse == InitParse /\ [][NextParse]_vars
SpecNew == InitNew /\ [][NextNew]_vars
SpecRecord == InitRecord /\ [][NextRecord]_vars
====
